---- MODULE Spec2Model ----
(***************************************************************************)
(* A model of the MyST-AST to JATS transducer of                            *)
(* packages/myst-to-jats/src/index.ts: the JatsSerializer builder (stack,   *)
(* footnotes, data), the default handler table, the multi-article composer  *)
(* and the two write functions.                                             *)
(*                                                                          *)
(* An AST is a sequence of nodes in document (pre-order) order; each node   *)
(* carries its depth, so that the children of a node are the nodes of the   *)
(* next depth that follow it before the next node of its own depth or less. *)
(* The root is position 0.  A handler's recursion is unfolded into a list   *)
(* of builder calls still to be made (todo); each builder call is one step. *)
(***************************************************************************)
EXTENDS Integers, Sequences, FiniteSets, TLC

\* ------------------------------------------------------------------ bounds
MaxNodes == 3
MaxDocs == 2
MaxAround == 2
MaxCalls == 4

\* ------------------------------------------------------------ basic values
Undefined == "undefined"
NoAttrs == <<>>
Range(s) == {s[k] : k \in 1..Len(s)}

RECURSIVE Flatten(_)
Flatten(ss) == IF ss = <<>> THEN <<>> ELSE Head(ss) \o Flatten(Tail(ss))

\* --------------------------------------------------------------- AST nodes
\* A node of the AST (GenericNode).  kids says whether the node has a
\* children array; valued, labelled, alt, identified and enumerator whether
\* it has a non-empty value, label, alt, identifier and enumerator; remote
\* whether its url starts with http; colspan and rowspan are <<>> when
\* absent and <<c>> for the number c.
Node(type) ==
  [type |-> type, id |-> 0, depth |-> 1, kids |-> FALSE, valued |-> FALSE,
   labelled |-> FALSE, kind |-> Undefined, alt |-> FALSE, remote |-> FALSE,
   identified |-> FALSE, enumerated |-> Undefined, enumerator |-> FALSE,
   header |-> FALSE, align |-> Undefined, colspan |-> <<>>, rowspan |-> <<>>,
   lang |-> Undefined, ordered |-> FALSE]

Parent(type) == [Node(type) EXCEPT !.kids = TRUE]

\* The node templates the trees are built from under the default handlers.
DefaultAlphabet ==
  { [Node("text") EXCEPT !.valued = TRUE],
    Node("text"),
    Parent("paragraph"),
    Parent("block"),
    Node("comment"),
    Node("break"),
    [Node("image") EXCEPT !.alt = TRUE],
    [Parent("container") EXCEPT !.kind = "figure"],
    [Parent("container") EXCEPT !.kind = "other"],
    [Parent("footnoteDefinition") EXCEPT !.identified = TRUE, !.labelled = TRUE],
    Parent("unknown") }

\* The node templates under the caller-supplied handler table.
CustomAlphabet ==
  { [Node("text") EXCEPT !.valued = TRUE],
    Parent("paragraph"),
    Node("comment"),
    Node("opener"),
    Node("closer") }

\* The depth sequences of the forests of n nodes in document order.
Shapes(n) ==
  { d \in [1..n -> 1..n] :
      /\ n > 0 => d[1] = 1
      /\ \A k \in 1..(n - 1) : d[k + 1] <= d[k] + 1 }

\* Last position of the subtree of position i (the whole tree for the root).
DepthOf(t, i) == IF i = 0 THEN 0 ELSE t[i].depth

SubtreeEnd(t, i) ==
  LET stops == {j \in (i + 1)..Len(t) : t[j].depth <= DepthOf(t, i)}
  IN  IF stops = {} THEN Len(t)
      ELSE (CHOOSE j \in stops : \A k \in stops : j <= k) - 1

ChildSet(t, i) ==
  {j \in (i + 1)..SubtreeEnd(t, i) : t[j].depth = DepthOf(t, i) + 1}

RECURSIVE SortedSeq(_)
SortedSeq(S) ==
  IF S = {} THEN <<>>
  ELSE LET m == CHOOSE x \in S : \A y \in S : x <= y
       IN  <<m>> \o SortedSeq(S \ {m})

\* node.children, as positions, in order.
Children(t, i) == SortedSeq(ChildSet(t, i))

\* 'children' in node: a node with descendants has a children array.
HasChildren(t, i) == i = 0 \/ t[i].kids \/ ChildSet(t, i) # {}

TypeOf(t, i) == IF i = 0 THEN "root" ELSE t[i].type

\* The tree of the given depths and node templates; a node's id is its
\* position.
Tree(d, tpl) == [k \in 1..Len(d) |-> [tpl[k] EXCEPT !.id = k, !.depth = d[k]]]

\* The tree without the subtree of position i.
RemoveSubtree(t, i) ==
  SubSeq(t, 1, i - 1) \o SubSeq(t, SubtreeEnd(t, i) + 1, Len(t))

\* node.value, node.alt, node.enumerator and (of a footnoteDefinition)
\* node.label: a text is written as the sequence of the ids of the nodes its
\* pieces come from (<<>>: absent or empty).
ValueOf(n) == IF n.valued THEN <<n.id>> ELSE <<>>
AltOf(n) == IF n.alt THEN <<n.id>> ELSE <<>>
LabelOf(n) == IF n.labelled THEN <<n.id>> ELSE <<>>
EnumeratorOf(n) == IF n.enumerator THEN <<n.id>> ELSE <<>>

\* node.identifier, node.url and (of a cite) node.label as attribute values.
IdentifierOf(n) == IF n.identified THEN "id" \o ToString(n.id) ELSE Undefined
UrlOf(n) == IF n.remote THEN "http" ELSE "file"
CiteLabelOf(n) == IF n.labelled THEN "label" \o ToString(n.id) ELSE Undefined

\* The pieces a template adds around the enumerator of an equation.
OpenParen == 0 - 1
CloseParen == 0 - 2

\* ---------------------------------------------------------- element tree
\* An Element of the output tree.  leaf: the node has no elements array.
\* src is the id of the AST node whose handler opened the element (0: none);
\* a text node's text is the sequence of the ids its pieces come from.
Element(name, attributes, leaf, src) ==
  [type |-> IF name = "cdata" THEN "cdata" ELSE "element",
   name |-> IF name = "cdata" THEN Undefined ELSE name,
   attributes |-> attributes, elements |-> <<>>, leaf |-> leaf,
   text |-> <<>>, src |-> src]

createText(text) ==
  [type |-> "text", name |-> Undefined, attributes |-> NoAttrs,
   elements |-> <<>>, leaf |-> TRUE, text |-> text, src |-> 0]

\* What stack.pop() and top() give on an empty stack.
NoElement ==
  [type |-> "undefined", name |-> Undefined, attributes |-> NoAttrs,
   elements |-> <<>>, leaf |-> TRUE, text |-> <<>>, src |-> 0]

\* { type: 'element', elements: [] }, the frame the constructor starts with.
RootFrame == Element(Undefined, NoAttrs, FALSE, 0)

\* All elements of the tree below and including e, in document order.
RECURSIVE Descendants(_)
Descendants(e) ==
  <<e>> \o Flatten([k \in 1..Len(e.elements) |-> Descendants(e.elements[k])])

\* ---------------------------------------------------------- handler tables
\* The tag of the handlers that only call renderInline(node, tag).
InlineTag ==
  [paragraph |-> "p", section |-> "sec", blockquote |-> "disp-quote",
   definitionList |-> "def-list", definitionItem |-> "def-item",
   definitionTerm |-> "term", definitionDescription |-> "def",
   listItem |-> "list-item", strong |-> "bold", emphasis |-> "italic",
   underline |-> "underline", inlineCode |-> "monospace", subscript |-> "sub",
   superscript |-> "sup", delete |-> "strike", smallcaps |-> "sc",
   attrib |-> "attrib", table |-> "table", tableHead |-> "thead",
   tableBody |-> "tbody", tableFooter |-> "tfoot", tableRow |-> "tr",
   caption |-> "caption", captionNumber |-> "label"]

ChildrenOnlyTypes == {"block", "mystRole", "mystDirective", "citeGroup"}
SilentTypes == {"thematicBreak", "mystComment", "comment"}

\* The default table: node type -> the handler registered for it.
handlers ==
  [ty \in DOMAIN InlineTag \cup ChildrenOnlyTypes \cup SilentTypes
          \cup {"text", "heading", "code", "list", "inlineMath", "math",
                "break", "link", "admonition", "admonitionTitle", "tableCell",
                "image", "container", "crossReference", "cite",
                "footnoteReference", "footnoteDefinition"} |->
     IF ty \in DOMAIN InlineTag THEN "renderInline"
     ELSE IF ty \in ChildrenOnlyTypes THEN "renderChildren"
     ELSE IF ty \in SilentTypes THEN "nothing"
     ELSE ty]

\* A caller-supplied table: two of the default handlers, a handler that
\* opens an element and never closes it, and one that closes an element it
\* did not open.
CustomHandlers ==
  [text |-> "text", paragraph |-> "renderInline",
   opener |-> "openOnly", closer |-> "closeOnly"]

\* ------------------------------------------------------------------ builder
\* A JatsSerializer: the fields the constructor sets.
Serializer(tree, table, options) ==
  [tree |-> tree, handlers |-> table, options |-> options,
   data |-> [isInContainer |-> FALSE],
   stack |-> <<RootFrame>>, footnotes |-> <<>>]

top(s) == IF s.stack = <<>> THEN NoElement ELSE s.stack[Len(s.stack)]

\* 'elements' in top
HasElements(e) == ~e.leaf

AppendChild(stack, el) ==
  [stack EXCEPT ![Len(stack)].elements = Append(@, el)]

pushNodeIntoLeaf(s, el) ==
  IF Len(s.stack) > 0 /\ el.type # "undefined"
  THEN [s EXCEPT !.stack = AppendChild(@, el)]
  ELSE s
pushNode(s, el) ==
  IF Len(s.stack) > 0 /\ el.type # "undefined" /\ HasElements(top(s))
  THEN [s EXCEPT !.stack = AppendChild(@, el)]
  ELSE s

\* text(text): merges into a last child that is text, else adds a text child.
textAlwaysNew(s, value) ==
  IF value = <<>> \/ Len(s.stack) = 0 \/ ~HasElements(top(s)) THEN s
  ELSE [s EXCEPT !.stack = AppendChild(@, createText(value))]
text(s, value) ==
  IF value = <<>> \/ Len(s.stack) = 0 \/ ~HasElements(top(s)) THEN s
  ELSE LET els == top(s).elements
           n == Len(els)
       IN  IF n > 0 /\ els[n].type = "text"
           THEN [s EXCEPT !.stack[Len(s.stack)].elements[n].text = @ \o value]
           ELSE [s EXCEPT !.stack = AppendChild(@, createText(value))]

openNode(s, name, attributes, isLeaf, src) ==
  [s EXCEPT !.stack = Append(@, Element(name, attributes, isLeaf, src))]

closeNode(s) ==
  IF s.stack = <<>> THEN pushNode(s, NoElement)
  ELSE pushNode([s EXCEPT !.stack = SubSeq(@, 1, Len(@) - 1)], top(s))

\* The condition of the constructor's closing loop: this.stack.length > 1
StillOpenOffByOne(s) == Len(s.stack) > 2
StillOpen(s) == Len(s.stack) > 1

\* body(): the root frame's children, or a TypeError when the stack is empty.
body(s) ==
  IF s.stack = <<>> THEN [NoElement EXCEPT !.type = "TypeError"]
  ELSE [Element("body", NoAttrs, FALSE, 0) EXCEPT !.elements = s.stack[1].elements]

\* ------------------------------------------------------- handler programs
\* One builder call still to be made.  node and parent are positions in the
\* tree of the running serializer.
Call(op) ==
  [op |-> op, node |-> 0, parent |-> 0, name |-> Undefined,
   attributes |-> NoAttrs, leaf |-> FALSE, value |-> <<>>, source |-> Undefined,
   entry |-> [stack |-> <<>>, footnotes |-> <<>>]]

Visit(i, p) == [Call("visit") EXCEPT !.node = i, !.parent = p]
Open(i, name, attributes) ==
  [Call("openNode") EXCEPT !.node = i, !.name = name, !.attributes = attributes]
OpenLeaf(i, name, attributes) == [Open(i, name, attributes) EXCEPT !.leaf = TRUE]
Close == Call("closeNode")
Text(value) == [Call("text") EXCEPT !.value = value]
\* The return of the handler called for node i; entry is the stack and the
\* footnotes the handler was entered with.
Return(i, s) ==
  [Call("return") EXCEPT !.node = i,
                         !.entry = [stack |-> s.stack, footnotes |-> s.footnotes]]
Warn(i, source) == [Call("warn") EXCEPT !.node = i, !.source = source]
Error(i, source) == [Call("error") EXCEPT !.node = i, !.source = source]

\* renderChildren(node): one dispatch per child, in the order of children.
renderChildrenReversed(t, i) ==
  LET cs == Children(t, i) IN [k \in 1..Len(cs) |-> Visit(cs[Len(cs) + 1 - k], i)]
renderChildren(t, i) ==
  LET cs == Children(t, i) IN [k \in 1..Len(cs) |-> Visit(cs[k], i)]

renderInlineWithId(t, i, name, attributes) ==
  LET n == t[i]
      id == IF n.identified THEN IdentifierOf(n) ELSE Undefined
  IN  <<Open(i, name, attributes @@ [id |-> id])>>
      \o (IF HasChildren(t, i) THEN renderChildren(t, i)
          ELSE IF ValueOf(n) # <<>> THEN <<Text(ValueOf(n))>> ELSE <<>>)
      \o <<Close>>
renderInline(t, i, name, attributes) ==
  LET n == t[i]
      id == IF name # "xref" /\ n.identified THEN IdentifierOf(n) ELSE Undefined
  IN  <<Open(i, name, attributes @@ [id |-> id])>>
      \o (IF HasChildren(t, i) THEN renderChildren(t, i)
          ELSE IF ValueOf(n) # <<>> THEN <<Text(ValueOf(n))>> ELSE <<>>)
      \o <<Close>>

addLeafUnclosed(i, name, attributes) == <<OpenLeaf(i, name, attributes)>>
addLeaf(i, name, attributes) == <<OpenLeaf(i, name, attributes), Close>>

referenceKindToRefType(kind) ==
  CASE kind = "heading" -> "sec"
    [] kind = "figure" -> "fig"
    [] kind = "equation" -> "disp-formula"
    [] kind = "table" -> "table"
    [] OTHER -> "custom"

\* renderLabel(node, state, template); parens: the template is
\* (enumerator) => `(${enumerator})`, otherwise the identity.
renderLabelIfEnumerated(t, i, parens) ==
  LET n == t[i] IN
  IF n.enumerated = "true" /\ EnumeratorOf(n) # <<>>
  THEN <<Open(i, "label", NoAttrs),
         Text(IF parens THEN <<OpenParen>> \o EnumeratorOf(n) \o <<CloseParen>>
              ELSE EnumeratorOf(n)),
         Close>>
  ELSE <<>>
renderLabel(t, i, parens) ==
  LET n == t[i] IN
  IF n.enumerated # "false" /\ EnumeratorOf(n) # <<>>
  THEN <<Open(i, "label", NoAttrs),
         Text(IF parens THEN <<OpenParen>> \o EnumeratorOf(n) \o <<CloseParen>>
              ELSE EnumeratorOf(n)),
         Close>>
  ELSE <<>>

headingHandler(t, i) ==
  renderLabel(t, i, FALSE) \o renderInline(t, i, "title", NoAttrs)

inlineMathHandlerExtraClose(t, i) ==
  <<Open(i, "inline-formula", NoAttrs), Open(i, "tex-math", NoAttrs)>>
  \o addLeaf(i, "cdata", [cdata |-> ValueOf(t[i])])
  \o <<Close, Close, Close>>
inlineMathHandler(t, i) ==
  <<Open(i, "inline-formula", NoAttrs), Open(i, "tex-math", NoAttrs)>>
  \o addLeaf(i, "cdata", [cdata |-> ValueOf(t[i])])
  \o <<Close, Close>>

mathHandlerLabelLast(t, i) ==
  <<Open(i, "disp-formula", [id |-> IdentifierOf(t[i])])>>
  \o <<Open(i, "tex-math", NoAttrs)>>
  \o addLeaf(i, "cdata", [cdata |-> ValueOf(t[i])])
  \o <<Close>>
  \o renderLabel(t, i, FALSE)
  \o <<Close>>
mathHandler(t, i) ==
  <<Open(i, "disp-formula", [id |-> IdentifierOf(t[i])])>>
  \o renderLabel(t, i, TRUE)
  \o <<Open(i, "tex-math", NoAttrs)>>
  \o addLeaf(i, "cdata", [cdata |-> ValueOf(t[i])])
  \o <<Close, Close>>

admonitionTitleHandler(t, i) ==
  <<Open(i, "caption", NoAttrs)>> \o renderInline(t, i, "title", NoAttrs) \o <<Close>>

\* x ? String(x) : undefined, for an absent or numeric x
StringIfTruthy(x) ==
  IF x # <<>> /\ x[1] # 0 THEN ToString(x[1]) ELSE Undefined

tableCellHandler(t, i) ==
  LET n == t[i] IN
  renderInline(t, i, IF n.header THEN "th" ELSE "td",
               [align |-> n.align,
                colspan |-> StringIfTruthy(n.colspan),
                rowspan |-> StringIfTruthy(n.rowspan)])

crossReferenceHandler(t, i) ==
  LET n == t[i]
      attrs == ("ref-type" :> referenceKindToRefType(n.kind))
                 @@ [rid |-> IdentifierOf(n)]
  IN  renderInline(t, i, "xref",
                   IF attrs["ref-type"] = "custom" /\ n.kind # Undefined
                   THEN ("custom-type" :> n.kind) @@ attrs ELSE attrs)

citeHandler(t, i) ==
  renderInline(t, i, "xref", ("ref-type" :> "bibr") @@ [rid |-> CiteLabelOf(t[i])])

footnoteReferenceInline(t, i) ==
  renderInline(t, i, "xref", ("ref-type" :> "fn") @@ [rid |-> IdentifierOf(t[i])])
footnoteReferenceHandler(t, i) ==
  addLeaf(i, "xref", ("ref-type" :> "fn") @@ [rid |-> IdentifierOf(t[i])])

breakHandler(t, i, p) ==
  IF TypeOf(t, p) = "paragraph" THEN <<Warn(i, "break")>>
  ELSE addLeaf(i, "break", NoAttrs)

imageHandler(t, i, data) ==
  LET n == t[i] IN
  (IF n.remote THEN <<Warn(i, "image")>> ELSE <<>>)
  \o (IF data.isInContainer /\ AltOf(n) # <<>>
      THEN <<Open(i, "alt-text", NoAttrs), Text(AltOf(n)), Close>> ELSE <<>>)
  \o addLeaf(i, "graphic", ("xlink:href" :> UrlOf(n)))

containerHandlerDropsUnknown(t, i) ==
  LET n == t[i] IN
  <<Call("setInContainer")>>
  \o (CASE n.kind = "figure" -> renderInline(t, i, "fig", NoAttrs)
        [] n.kind = "table" -> renderInline(t, i, "table-wrap", NoAttrs)
        [] n.kind = "quote" -> renderChildren(t, i)
        [] n.kind = "code" ->
             renderInline(t, i, "boxed-text", ("content-type" :> n.kind))
        [] OTHER -> <<Error(i, "container")>>)
  \o <<Call("deleteInContainer")>>
containerHandler(t, i) ==
  LET n == t[i] IN
  <<Call("setInContainer")>>
  \o (CASE n.kind = "figure" -> renderInline(t, i, "fig", NoAttrs)
        [] n.kind = "table" -> renderInline(t, i, "table-wrap", NoAttrs)
        [] n.kind = "quote" -> renderChildren(t, i)
        [] n.kind = "code" ->
             renderInline(t, i, "boxed-text", ("content-type" :> n.kind))
        [] OTHER -> <<Error(i, "container")>> \o renderChildren(t, i))
  \o <<Call("deleteInContainer")>>

\* handlers.footnoteDefinition: the fn element is popped off the stack into
\* the footnotes, not closed into its parent.
footnoteDefinitionInPlace(t, i) ==
  LET n == t[i] IN
  <<Open(i, "fn", [id |-> IdentifierOf(n)]), Open(i, "label", NoAttrs),
    Text(LabelOf(n)), Close>>
  \o renderChildren(t, i)
  \o <<Close>>
footnoteDefinitionHandler(t, i) ==
  LET n == t[i] IN
  <<Open(i, "fn", [id |-> IdentifierOf(n)]), Open(i, "label", NoAttrs),
    Text(LabelOf(n)), Close>>
  \o renderChildren(t, i)
  \o <<Call("popFootnote")>>

\* The calls the handler h makes for the node at position i with parent p.
HandlerCalls(h, t, i, p, data) ==
  CASE h = "text" -> <<Text(ValueOf(t[i]))>>
    [] h = "renderInline" -> renderInline(t, i, InlineTag[t[i].type], NoAttrs)
    [] h = "renderChildren" -> renderChildren(t, i)
    [] h = "nothing" -> <<>>
    [] h = "heading" -> headingHandler(t, i)
    [] h = "code" -> renderInline(t, i, "code", [language |-> t[i].lang])
    [] h = "list" ->
         renderInline(t, i, "list",
                      ("list-type" :> (IF t[i].ordered THEN "ordered" ELSE "bullet")))
    [] h = "inlineMath" -> inlineMathHandler(t, i)
    [] h = "math" -> mathHandler(t, i)
    [] h = "break" -> breakHandler(t, i, p)
    [] h = "link" ->
         renderInline(t, i, "ext-link",
                      ("ext-link-type" :> "uri") @@ ("xlink:href" :> UrlOf(t[i])))
    [] h = "admonition" ->
         renderInline(t, i, "boxed-text", ("content-type" :> t[i].kind))
    [] h = "admonitionTitle" -> admonitionTitleHandler(t, i)
    [] h = "tableCell" -> tableCellHandler(t, i)
    [] h = "crossReference" -> crossReferenceHandler(t, i)
    [] h = "cite" -> citeHandler(t, i)
    [] h = "footnoteReference" -> footnoteReferenceHandler(t, i)
    [] h = "image" -> imageHandler(t, i, data)
    [] h = "container" -> containerHandler(t, i)
    [] h = "footnoteDefinition" -> footnoteDefinitionHandler(t, i)
    [] h = "openOnly" -> <<Open(i, "custom", NoAttrs)>>
    [] h = "closeOnly" -> <<Close>>

\* -------------------------------------------------------------- frontmatter
\* A frontmatter object: given says whether there is one, fields maps its
\* keys to their values.  The values are named by strings.
Keys == {"title", "subject"}
JsValues == {"A", "B", "null", "undefined", "NaN"}
NoFrontmatter == [given |-> FALSE, fields |-> <<>>]
Frontmatter(fields) == [given |-> TRUE, fields |-> fields]

\* JSON.stringify(value): the text written for the value; null and NaN are
\* both written null, and undefined has no text.
JSONstringify(value) ==
  CASE value = "undefined" -> Undefined
    [] value \in {"null", "NaN"} -> "null"
    [] OTHER -> "\"" \o value \o "\""

\* projectFrontmatter?.[key]
Lookup(frontmatter, key) ==
  IF frontmatter.given /\ key \in DOMAIN frontmatter.fields
  THEN frontmatter.fields[key] ELSE "undefined"

\* The condition under which frontmatterStub copies a page entry.
StubKeepsIfBoth(value, projectValue) ==
  projectValue \in {"null", "undefined"}
    /\ JSONstringify(value) # JSONstringify(projectValue)
StubKeeps(value, projectValue) ==
  projectValue \in {"null", "undefined"}
    \/ JSONstringify(value) # JSONstringify(projectValue)

frontmatterStub(pageFrontmatter, projectFrontmatter) ==
  LET kept == IF pageFrontmatter.given
              THEN {k \in DOMAIN pageFrontmatter.fields :
                      StubKeeps(pageFrontmatter.fields[k],
                                Lookup(projectFrontmatter, k))}
              ELSE {}
  IN  Frontmatter([k \in kept |-> pageFrontmatter.fields[k]])

\* ------------------------------------------------------------ collaborators
\* getFront(frontmatter): a front element, or nothing without frontmatter.
getFront(frontmatter) ==
  IF frontmatter.given /\ DOMAIN frontmatter.fields # {}
  THEN Element("front", NoAttrs, FALSE, 0) ELSE NoElement

\* getArticleMeta(frontmatter): at most one article-meta element.
getArticleMeta(frontmatter) ==
  IF frontmatter.given /\ DOMAIN frontmatter.fields # {}
  THEN <<[Element("article-meta", NoAttrs, FALSE, 0) EXCEPT
            !.elements = <<Element("title-group", NoAttrs, FALSE, 0)>>]>>
  ELSE <<>>

\* getBack(citations, footnotes): a back element holding the reference list
\* and the footnotes, or nothing when there are neither.
getBack(citations, footnotes) ==
  IF ~citations /\ footnotes = <<>> THEN NoElement
  ELSE [Element("back", NoAttrs, FALSE, 0) EXCEPT
          !.elements =
             (IF citations THEN <<Element("ref-list", NoAttrs, FALSE, 0)>> ELSE <<>>)
             \o (IF footnotes = <<>> THEN <<>>
                 ELSE <<[Element("fn-group", NoAttrs, FALSE, 0) EXCEPT
                           !.elements = footnotes]>>)]

\* basicTransformations(tree): the tree as the pre-pass may leave it, either
\* as it was or rewritten; a rewrite is represented by the loss of a subtree.
basicTransformations(t) == {t} \cup {RemoveSubtree(t, i) : i \in 1..Len(t)}

\* -------------------------------------------------------------------- state
VARIABLES
  heap,        \* the AST objects: reference -> tree
  contents,    \* the caller's MultiArticleContents (its mdast a reference)
  opts,        \* the caller's options
  articles,    \* the serializers constructed so far
  cur,         \* the serializer whose constructor is running
  todo,        \* the builder calls the running constructor still makes
  log,         \* the messages of the file, in order
  dispatched,  \* the nodes a handler was called for, in order
  pc,          \* where the call is
  rootClosed,  \* the serializers whose root frame was popped off the stack
  result       \* the element handed to the XML writer

vars ==
  <<heap, contents, opts, articles, cur, todo, log, dispatched, pc, rootClosed,
    result>>

this == articles[cur]
tree == heap[this.tree]

\* The caller's options: multi (writeMultiArticleJats was called), custom
\* (opts.handlers is given), fullArticle, and the project frontmatter.
Options(multi, custom, fullArticle, frontmatter) ==
  [multi |-> multi, custom |-> custom, fullArticle |-> fullArticle,
   frontmatter |-> frontmatter]

\* One entry of MultiArticleContents.
Content(mdast, frontmatter, citations) ==
  [mdast |-> mdast, frontmatter |-> frontmatter, citations |-> citations]

\* this.handlers = opts?.handlers ?? handlers
TableMerged(o) == IF o.custom THEN CustomHandlers @@ handlers ELSE handlers
TableOf(o) == IF o.custom THEN CustomHandlers ELSE handlers

\* fileError(file, message, opts) of myst-common: the message it adds to
\* the file is an error (fileWarn is the function that adds a warning).
fileError(message) == [message EXCEPT !.severity = "error"]

\* fileError(this.file, message, {node, source}) as called by warn, error
\* and renderChildren; via names the caller.
Message(via, i, source) ==
  fileError([via |-> via, doc |-> cur, node |-> tree[i].id,
             severity |-> Undefined,
             source |-> IF source = Undefined THEN "myst-to-jats"
                        ELSE "myst-to-jats:" \o source])

Start ==
  /\ log = <<>>
  /\ dispatched = <<>>
  /\ rootClosed = {}
  /\ result = NoElement

\* new JatsSerializer(file, tree, opts) up to its call of renderChildren, for
\* a tree of a given alphabet under a given handler table.
InitWith(alphabet, custom) ==
  \E n \in 0..MaxNodes : \E d \in Shapes(n) : \E tpl \in [1..n -> alphabet] :
    /\ heap = <<Tree(d, tpl)>>
    /\ contents = <<>>
    /\ opts = Options(FALSE, custom, FALSE, NoFrontmatter)
    /\ articles = <<Serializer(1, TableOf(opts), [citations |-> FALSE,
                                                  frontmatter |-> NoFrontmatter])>>
    /\ cur = 1
    /\ todo = renderChildren(Tree(d, tpl), 0)
    /\ pc = "render"
    /\ Start

Init == InitWith(DefaultAlphabet, FALSE) \/ InitWith(CustomAlphabet, TRUE)

Running(op) == pc = "render" /\ todo # <<>> /\ Head(todo).op = op

Builder(s) ==
  /\ articles' = [articles EXCEPT ![cur] = s]
  /\ todo' = Tail(todo)
  /\ rootClosed' = IF this.stack # <<>> /\ s.stack = <<>>
                   THEN rootClosed \cup {cur} ELSE rootClosed
  /\ UNCHANGED <<heap, contents, opts, cur, log, dispatched, pc, result>>

\* renderChildren: the child has a handler, which is called.
Dispatch ==
  /\ Running("visit")
  /\ LET c == Head(todo)
         ty == tree[c.node].type
     IN  /\ ty \in DOMAIN this.handlers
         /\ todo' = HandlerCalls(this.handlers[ty], tree, c.node, c.parent, this.data)
                      \o <<Return(c.node, this)>> \o Tail(todo)
         /\ dispatched' = Append(dispatched, [doc |-> cur, node |-> tree[c.node].id])
  /\ UNCHANGED <<heap, contents, opts, articles, cur, log, pc, rootClosed, result>>

\* renderChildren: the handler called for a child returns.
HandlerReturns ==
  /\ Running("return")
  /\ todo' = Tail(todo)
  /\ UNCHANGED <<heap, contents, opts, articles, cur, log, dispatched, pc,
                 rootClosed, result>>

\* renderChildren: the child's type has no handler; an error is logged and
\* nothing of the child is rendered.
UnhandledDescends ==
  /\ Running("visit")
  /\ LET c == Head(todo) IN
       /\ tree[c.node].type \notin DOMAIN this.handlers
       /\ log' = Append(log, Message("unhandled", c.node, Undefined))
       /\ todo' = renderChildren(tree, c.node) \o Tail(todo)
  /\ UNCHANGED <<heap, contents, opts, articles, cur, dispatched, pc, rootClosed,
                 result>>
Unhandled ==
  /\ Running("visit")
  /\ LET c == Head(todo) IN
       /\ tree[c.node].type \notin DOMAIN this.handlers
       /\ log' = Append(log, Message("unhandled", c.node, Undefined))
  /\ todo' = Tail(todo)
  /\ UNCHANGED <<heap, contents, opts, articles, cur, dispatched, pc, rootClosed,
                 result>>

OpenNode ==
  /\ Running("openNode")
  /\ LET c == Head(todo) IN
       Builder(openNode(this, c.name, c.attributes, c.leaf, tree[c.node].id))

CloseNode == Running("closeNode") /\ Builder(closeNode(this))

TextCall == Running("text") /\ Builder(text(this, Head(todo).value))

\* warn(message, node, source)
WarnCall ==
  /\ Running("warn")
  /\ log' = Append(log, Message("warn", Head(todo).node, Head(todo).source))
  /\ todo' = Tail(todo)
  /\ UNCHANGED <<heap, contents, opts, articles, cur, dispatched, pc, rootClosed,
                 result>>

\* error(message, node, source)
ErrorCallThrows ==
  /\ Running("error")
  /\ log' = Append(log, Message("error", Head(todo).node, Head(todo).source))
  /\ todo' = <<>>
  /\ pc' = "thrown"
  /\ UNCHANGED <<heap, contents, opts, articles, cur, dispatched, rootClosed,
                 result>>
ErrorCall ==
  /\ Running("error")
  /\ log' = Append(log, Message("error", Head(todo).node, Head(todo).source))
  /\ todo' = Tail(todo)
  /\ UNCHANGED <<heap, contents, opts, articles, cur, dispatched, pc, rootClosed,
                 result>>

\* state.data.isInContainer = true
SetInContainer ==
  Running("setInContainer") /\ Builder([this EXCEPT !.data.isInContainer = TRUE])

\* delete state.data.isInContainer
DeleteInContainerSkipped == Running("deleteInContainer") /\ Builder(this)
DeleteInContainer ==
  Running("deleteInContainer") /\ Builder([this EXCEPT !.data.isInContainer = FALSE])

\* The serializer whose footnotes array state.footnotes of serializer d is:
\* each constructor makes its own.
FootnotesShared(d) == 1
FootnotesOf(d) == d

\* element = state.stack.pop(); if (element) state.footnotes.push(element)
PopFootnote ==
  /\ Running("popFootnote")
  /\ IF this.stack = <<>> THEN articles' = articles
     ELSE articles' =
            [[articles EXCEPT ![cur].stack = SubSeq(@, 1, Len(@) - 1)]
               EXCEPT ![FootnotesOf(cur)].footnotes = Append(@, top(this))]
  /\ todo' = Tail(todo)
  /\ rootClosed' = IF Len(this.stack) = 1 THEN rootClosed \cup {cur} ELSE rootClosed
  /\ UNCHANGED <<heap, contents, opts, cur, log, dispatched, pc, result>>

\* while (this.stack.length > 1) this.closeNode()
CloseRemaining ==
  /\ pc = "render" /\ todo = <<>> /\ StillOpen(this)
  /\ articles' = [articles EXCEPT ![cur] = closeNode(this)]
  /\ UNCHANGED <<heap, contents, opts, cur, todo, log, dispatched, pc, rootClosed,
                 result>>

\* The constructor returns; in a bundle the next content follows.
Constructed ==
  /\ pc = "render" /\ todo = <<>> /\ ~StillOpen(this)
  /\ pc' = IF opts.multi /\ Len(articles) < Len(contents) THEN "compose" ELSE "built"
  /\ UNCHANGED <<heap, contents, opts, articles, cur, todo, log, dispatched,
                 rootClosed, result>>

Construct ==
  \/ Dispatch \/ HandlerReturns \/ Unhandled \/ OpenNode \/ CloseNode \/ TextCall
  \/ WarnCall \/ ErrorCall \/ SetInContainer \/ DeleteInContainer
  \/ PopFootnote \/ CloseRemaining \/ Constructed

\* ------------------------------------------------------- document assembly
Present(e) == e.type # "undefined"
Optional(e) == IF Present(e) THEN <<e>> ELSE <<>>

\* JatsSerializer.article()
article(s) ==
  [Element("article", NoAttrs, FALSE, 0) EXCEPT
     !.elements = Optional(getFront(s.options.frontmatter)) \o <<body(s)>>
                  \o Optional(getBack(s.options.citations, s.footnotes))]

\* MultiArticleJatsDocument.back()
MultiBackAggregate(as) ==
  getBack(FALSE, Flatten([k \in 1..Len(as) |-> as[k].footnotes]))
MultiBack(as) == NoElement

\* One sub-article of MultiArticleJatsDocument.body()
SubArticle(s) ==
  LET frontStubElements == IF s.options.frontmatter.given
                           THEN getArticleMeta(s.options.frontmatter) ELSE <<>>
  IN  [Element("sub-article", NoAttrs, FALSE, 0) EXCEPT
         !.elements =
            (IF Len(frontStubElements) > 0
             THEN <<[Element("front-stub", NoAttrs, FALSE, 0) EXCEPT
                       !.elements = frontStubElements[1].elements]>>
             ELSE <<>>)
            \o <<body(s)>>
            \o Optional(getBack(s.options.citations, s.footnotes))]

\* MultiArticleJatsDocument.body()
MultiBody(as) ==
  [Element("body", NoAttrs, FALSE, 0) EXCEPT
     !.elements = [k \in 1..Len(as) |-> SubArticle(as[k])]]

\* MultiArticleJatsDocument.article()
MultiArticle(as, o) ==
  [Element("article", NoAttrs, FALSE, 0) EXCEPT
     !.elements = Optional(getFront(o.frontmatter)) \o <<MultiBody(as)>>
                  \o Optional(MultiBack(as))]

\* opts?.fullArticle ? { type: 'element', elements: [state.article()] }
\*                   : state.body()
Document(as, o) ==
  IF o.fullArticle
  THEN [RootFrame EXCEPT
          !.elements = <<IF o.multi THEN MultiArticle(as, o) ELSE article(as[1])>>]
  ELSE IF o.multi THEN MultiBody(as) ELSE body(as[1])

\* buildJatsDocument, and the end of writeMultiArticleJats.
Build ==
  /\ pc = "built"
  /\ result' = Document(articles, opts)
  /\ pc' = "done"
  /\ UNCHANGED <<heap, contents, opts, articles, cur, todo, log, dispatched,
                 rootClosed>>

Next == Construct \/ Build

Spec == Init /\ [][Next]_vars

\* ------------------------------------------- every handler of the table
\* The node templates that surround the node under study.
BaseAlphabet ==
  { [Node("text") EXCEPT !.valued = TRUE],
    Parent("paragraph"),
    Node("break"),
    [Parent("container") EXCEPT !.kind = "other"],
    [Parent("footnoteDefinition") EXCEPT !.identified = TRUE, !.labelled = TRUE],
    Parent("unknown") }

Enumerations == {Undefined, "true", "false"}

TableCells ==
  { [Parent("tableCell") EXCEPT !.header = h, !.align = a, !.colspan = c,
                                !.rowspan = r] :
      h \in BOOLEAN, a \in {Undefined, "left"},
      c \in {<<>>, <<0>>, <<2>>}, r \in {<<>>, <<0>>, <<3>>} }

CrossReferences ==
  { [Parent("crossReference") EXCEPT !.kind = k, !.identified = b] :
      k \in {Undefined, "heading", "figure", "equation", "table", "proof"},
      b \in BOOLEAN }

Headings ==
  { [Parent("heading") EXCEPT !.enumerated = e, !.enumerator = b,
                              !.identified = TRUE] :
      e \in Enumerations, b \in BOOLEAN }

Maths ==
  { [Node(ty) EXCEPT !.valued = TRUE, !.enumerated = e, !.enumerator = b,
                     !.identified = b] :
      ty \in {"math", "inlineMath"}, e \in Enumerations, b \in BOOLEAN }
  \cup {Node("math"), Node("inlineMath")}

Citations ==
  { [Parent(ty) EXCEPT !.labelled = b, !.identified = c] :
      ty \in {"cite", "footnoteReference"}, b, c \in BOOLEAN }

Images ==
  { [Node("image") EXCEPT !.alt = a, !.remote = r] : a, r \in BOOLEAN }

Containers ==
  { [Parent("container") EXCEPT !.kind = k, !.identified = b] :
      k \in {"figure", "table", "quote", "code"}, b \in BOOLEAN }

\* The other handlers of the table, and nodes without value, label or
\* identifier.
OtherNodes ==
  { Node("text"), Node("paragraph"), Parent("footnoteDefinition"),
    Parent("block"), Parent("citeGroup"), Node("comment"), Node("thematicBreak"),
    [Parent("section") EXCEPT !.identified = TRUE],
    [Node("code") EXCEPT !.valued = TRUE, !.lang = "python"],
    [Parent("list") EXCEPT !.ordered = TRUE], Parent("list"),
    [Parent("link") EXCEPT !.remote = TRUE],
    [Parent("admonition") EXCEPT !.kind = "note"],
    Parent("admonitionTitle") }

StudiedNodes ==
  TableCells \cup CrossReferences \cup Headings \cup Maths \cup Citations
    \cup Images \cup Containers \cup OtherNodes

\* new JatsSerializer(file, tree) for a tree of at most MaxAround nodes that
\* holds at most one studied node, at any position.
InitStudied ==
  \E n \in 1..MaxAround : \E d \in Shapes(n) : \E tpl \in [1..n -> BaseAlphabet] :
  \E k \in 0..n : \E studied \in StudiedNodes :
    LET t == Tree(d, IF k = 0 THEN tpl ELSE [tpl EXCEPT ![k] = studied]) IN
      /\ heap = <<t>>
      /\ contents = <<>>
      /\ opts = Options(FALSE, FALSE, FALSE, NoFrontmatter)
      /\ articles = <<Serializer(1, TableOf(opts), [citations |-> FALSE,
                                                    frontmatter |-> NoFrontmatter])>>
      /\ cur = 1
      /\ todo = renderChildren(t, 0)
      /\ pc = "render"
      /\ Start

\* One studied node in a small tree, or a tree under the caller's table.
InitTable == InitStudied \/ InitWith(CustomAlphabet, TRUE)

\* The same, or a larger tree of the default alphabet.
InitHandlers == InitTable \/ InitWith(DefaultAlphabet, FALSE)

SpecHandlers == InitHandlers /\ [][Next]_vars

\* The calls are made one after the other by a single thread that does not
\* stop of its own: a step that can be taken is taken.
SpecHandlersLive == InitTable /\ [][Next]_vars /\ WF_vars(Next)

\* ------------------------------------------------------ multi-article bundle
\* The callback of contents.map in the constructor of
\* MultiArticleJatsDocument: the serializer of the next content.
StartArticle ==
  /\ pc = "compose" /\ Len(articles) < Len(contents)
  /\ LET content == contents[Len(articles) + 1] IN
       /\ articles' = Append(articles,
            Serializer(content.mdast, TableOf(opts),
                       [citations |-> content.citations,
                        frontmatter |-> frontmatterStub(content.frontmatter,
                                                        opts.frontmatter)]))
       /\ todo' = renderChildren(heap[content.mdast], 0)
  /\ cur' = Len(articles) + 1
  /\ pc' = "render"
  /\ UNCHANGED <<heap, contents, opts, log, dispatched, rootClosed, result>>

NextMulti == StartArticle \/ Construct \/ Build

\* The tree with its nodes' ids moved by an offset (ids differ between the
\* documents of a bundle).
Relabel(t, offset) == [k \in 1..Len(t) |-> [t[k] EXCEPT !.id = offset + k]]

Unknowns(t) == {k \in 1..Len(t) : t[k].type \notin DOMAIN handlers}

\* The node templates of the documents that are rendered with and without
\* their unhandled node.
PairAlphabet ==
  { [Node("text") EXCEPT !.valued = TRUE],
    Parent("paragraph"),
    Node("break"),
    Node("comment"),
    [Node("image") EXCEPT !.alt = TRUE],
    [Parent("container") EXCEPT !.kind = "other"],
    [Parent("footnoteDefinition") EXCEPT !.identified = TRUE, !.labelled = TRUE],
    Parent("unknown") }

\* A bundle of a document with one node of an unhandled type and the same
\* document without that node, about to be composed.
InitPair ==
  \E n \in 1..MaxNodes : \E d \in Shapes(n) : \E tpl \in [1..n -> PairAlphabet] :
    /\ Cardinality(Unknowns(Tree(d, tpl))) = 1
    /\ heap = <<Tree(d, tpl),
                RemoveSubtree(Tree(d, tpl), CHOOSE u \in Unknowns(Tree(d, tpl)) : TRUE)>>
    /\ contents = <<Content(1, NoFrontmatter, FALSE), Content(2, NoFrontmatter, FALSE)>>
    /\ opts = Options(TRUE, FALSE, FALSE, NoFrontmatter)

\* The documents the bundles are made of: no content; a footnote; a
\* paragraph and a footnote; and, for the caller-supplied table, an element
\* left open.
BundleTrees(custom) ==
  IF custom
  THEN { Tree(<<1, 1>>, <<Node("opener"), [Node("text") EXCEPT !.valued = TRUE]>>),
         Tree(<<1>>, <<[Node("text") EXCEPT !.valued = TRUE]>>) }
  ELSE { <<>>,
         Tree(<<1, 2>>,
              <<[Parent("footnoteDefinition") EXCEPT !.identified = TRUE,
                                                     !.labelled = TRUE],
                [Node("text") EXCEPT !.valued = TRUE]>>),
         Tree(<<1, 2, 1>>,
              <<Parent("paragraph"), [Node("text") EXCEPT !.valued = TRUE],
                [Parent("footnoteDefinition") EXCEPT !.identified = TRUE,
                                                     !.labelled = TRUE]>>) }

PageFrontmatters == {NoFrontmatter, Frontmatter("title" :> "A")}
ProjectFrontmatters ==
  {NoFrontmatter, Frontmatter("title" :> "A"), Frontmatter("title" :> "B")}

\* A bundle of up to MaxDocs documents, about to be composed.
InitBundle ==
  \E m \in 1..MaxDocs : \E custom, full \in BOOLEAN :
  \E ts \in [1..m -> BundleTrees(custom)] :
  \E fs \in [1..m -> PageFrontmatters] : \E cs \in [1..m -> BOOLEAN] :
  \E project \in ProjectFrontmatters :
    /\ heap = [k \in 1..m |-> Relabel(ts[k], 10 * k)]
    /\ contents = [k \in 1..m |-> Content(k, fs[k], cs[k])]
    /\ opts = Options(TRUE, custom, full, project)

InitMulti ==
  /\ InitPair \/ InitBundle
  /\ articles = <<>>
  /\ cur = 0
  /\ todo = <<>>
  /\ pc = "compose"
  /\ Start

SpecMulti == InitMulti /\ [][NextMulti]_vars

\* ---------------------------------------------------------- frontmatterStub
AllFrontmatters ==
  {NoFrontmatter}
    \cup {Frontmatter(f) : f \in UNION {[K -> JsValues] : K \in SUBSET Keys}}

\* A bundle of one empty document, for every page and project frontmatter.
InitStub ==
  /\ \E page, project \in AllFrontmatters :
       /\ contents = <<Content(1, page, FALSE)>>
       /\ opts = Options(TRUE, FALSE, FALSE, project)
  /\ heap = << <<>> >>
  /\ articles = <<>>
  /\ cur = 0
  /\ todo = <<>>
  /\ pc = "compose"
  /\ Start

SpecStub == InitStub /\ [][StartArticle]_vars

\* ----------------------------------------------------------- write functions
\* copyNode(node): the reference of a new object that is a deep copy.
copyNode(h, ref) == Len(h) + 1

\* The heap after copyNode(ref) gave copy and basicTransformations left the
\* copy as the tree t.
Rewritten(h, ref, copy, t) ==
  [(IF copy > Len(h) THEN Append(h, h[ref]) ELSE h) EXCEPT ![copy] = t]

\* writeSingleArticleJats up to the constructor's call of renderChildren.
PrepareSingle ==
  /\ pc = "write" /\ ~opts.multi
  /\ LET copy == copyNode(heap, 1) IN
       \E t \in basicTransformations(heap[1]) :
         /\ heap' = Rewritten(heap, 1, copy, t)
         /\ articles' = <<Serializer(copy, TableOf(opts),
                                     [citations |-> FALSE,
                                      frontmatter |-> opts.frontmatter])>>
         /\ todo' = renderChildren(t, 0)
  /\ cur' = 1
  /\ pc' = "render"
  /\ UNCHANGED <<contents, opts, log, dispatched, rootClosed, result>>

\* The callback of contents.forEach in writeMultiArticleJats:
\* content.mdast = the transformed copy.
PrepareContent ==
  /\ pc = "write" /\ opts.multi /\ cur < Len(contents)
  /\ LET ref == contents[cur + 1].mdast
         copy == copyNode(heap, ref)
     IN  /\ \E t \in basicTransformations(heap[ref]) :
               heap' = Rewritten(heap, ref, copy, t)
         /\ contents' = [contents EXCEPT ![cur + 1].mdast = copy]
  /\ cur' = cur + 1
  /\ pc' = IF cur + 1 = Len(contents) THEN "compose" ELSE "write"
  /\ UNCHANGED <<opts, articles, todo, log, dispatched, rootClosed, result>>

NextWrite == PrepareSingle \/ PrepareContent \/ NextMulti

\* The documents given to the write functions.
WriteTrees(custom) ==
  IF custom
  THEN { Tree(<<1, 1>>, <<Node("opener"), [Node("text") EXCEPT !.valued = TRUE]>>) }
  ELSE { Tree(<<1, 2, 2>>,
              <<Parent("paragraph"), [Node("text") EXCEPT !.valued = TRUE],
                Node("break")>>),
         Tree(<<1, 2>>,
              <<[Parent("container") EXCEPT !.kind = "other"],
                [Node("image") EXCEPT !.alt = TRUE]>>),
         Tree(<<1, 2, 1>>,
              <<[Parent("footnoteDefinition") EXCEPT !.identified = TRUE,
                                                     !.labelled = TRUE],
                [Node("text") EXCEPT !.valued = TRUE], Parent("unknown")>>) }

\* A call of writeSingleArticleJats or of writeMultiArticleJats.
InitWrite ==
  /\ \E custom, full \in BOOLEAN :
       \/ /\ \E t \in WriteTrees(custom) : heap = <<t>>
          /\ contents = <<>>
          /\ opts = Options(FALSE, custom, full, NoFrontmatter)
       \/ \E m \in 1..MaxDocs : \E ts \in [1..m -> WriteTrees(custom)] :
            /\ heap = [k \in 1..m |-> Relabel(ts[k], 10 * k)]
            /\ contents = [k \in 1..m |-> Content(k, NoFrontmatter, FALSE)]
            /\ opts = Options(TRUE, custom, full, NoFrontmatter)
  /\ articles = <<>>
  /\ cur = 0
  /\ todo = <<>>
  /\ pc = "write"
  /\ Start

SpecWrite == InitWrite /\ [][NextWrite]_vars

\* ------------------------------------------------------------ observations
Docs == 1..Len(articles)
Finished(d) == d # cur \/ pc # "render"
TreeOf(d) == heap[articles[d].tree]
IsDefault(d) == DOMAIN articles[d].handlers = DOMAIN handlers
NodeById(t, id) == t[CHOOSE k \in 1..Len(t) : t[k].id = id]
PositionOf(t, id) == CHOOSE k \in 1..Len(t) : t[k].id = id

\* Every element the serializer d holds: its open frames, the elements
\* already closed below them, and its footnotes.
Held(d) ==
  Flatten([k \in 1..Len(articles[d].stack) |-> Descendants(articles[d].stack[k])])
  \o Flatten([k \in 1..Len(articles[d].footnotes) |->
                Descendants(articles[d].footnotes[k])])

\* The ids of the AST nodes the children of e come from, child by child.
ChildSources(e) ==
  Flatten([k \in 1..Len(e.elements) |->
             IF e.elements[k].type = "text" THEN e.elements[k].text
             ELSE <<e.elements[k].src>>])

NonDecreasing(seq) ==
  LET q == seq IN \A k \in 1..(Len(q) - 1) : q[k] <= q[k + 1]
Increasing(q) == \A k \in 1..(Len(q) - 1) : q[k] < q[k + 1]

\* The ids of the nodes of the subtree of the node with the given id.
SubtreeIds(t, id) ==
  LET i == PositionOf(t, id) IN {t[k].id : k \in i..SubtreeEnd(t, i)}

DispatchedOfType(d, ty) ==
  SelectSeq(dispatched, LAMBDA x : x.doc = d /\ NodeById(TreeOf(d), x.node).type = ty)

FootnoteSources(d) ==
  [k \in 1..Len(articles[d].footnotes) |-> articles[d].footnotes[k].src]

\* -------------------------------------------------------------- properties
NoAdjacentText(e) ==
  \A k \in 1..(Len(e.elements) - 1) :
    ~(e.elements[k].type = "text" /\ e.elements[k + 1].type = "text")

\* C1: under the default handlers no element, open or finished, ever has two
\* adjacent text children: text() merges into a last text child.
C1_NoAdjacentTextSiblings ==
  \A d \in Docs : IsDefault(d) =>
    LET held == Held(d) IN \A k \in 1..Len(held) : NoAdjacentText(held[k])

\* A text child that was merged from the values of two nodes which another
\* node (one that emitted nothing in place) separates in the AST.
C1_Witness ==
  \E d \in Docs : IsDefault(d) /\
    LET held == Held(d) IN
      \E k \in 1..Len(held) :
        /\ held[k].type = "text" /\ Len(held[k].text) >= 2
        /\ held[k].text[2] > held[k].text[1] + 1

IsFootnote(d, f) ==
  /\ f.type = "element" /\ f.name = "fn" /\ ~f.leaf
  /\ Len(f.elements) >= 1
  /\ f.elements[1].name = "label" /\ f.elements[1].src = f.src
  /\ \A k \in 2..Len(f.elements) :
       /\ f.elements[k].name # "fn"
       /\ f.elements[k].type = "text" =>
            Range(f.elements[k].text) \subseteq SubtreeIds(TreeOf(d), f.src) \ {f.src}
       /\ f.elements[k].type # "text" =>
            f.elements[k].src \in SubtreeIds(TreeOf(d), f.src) \ {f.src}

\* C2: when a transduction with the default handlers has ended, the footnote
\* collection holds one fn element (label first, then the rendered body) for
\* every footnoteDefinition that was dispatched, and the body tree holds none.
C2_FootnotesAreHoisted ==
  \A d \in Docs : (IsDefault(d) /\ Finished(d)) =>
    LET fs == articles[d].footnotes
        defs == DispatchedOfType(d, "footnoteDefinition")
    IN  /\ Len(fs) = Len(defs)
        /\ \A x \in Range(defs) :
             Cardinality({k \in 1..Len(fs) : fs[k].src = x.node}) = 1
        /\ \A k \in 1..Len(fs) : IsFootnote(d, fs[k])
        /\ \A k \in 1..Len(articles[d].stack) :
             LET below == Descendants(articles[d].stack[k]) IN
               \A j \in 1..Len(below) : below[j].name # "fn"

\* A finished transduction that hoisted a footnote with a rendered body out
\* of a body that has content of its own.
C2_Witness ==
  \E d \in Docs : IsDefault(d) /\ Finished(d) /\
    /\ \E k \in 1..Len(articles[d].footnotes) :
         Len(articles[d].footnotes[k].elements) >= 2
    /\ articles[d].stack[1].elements # <<>>

\* C3: the footnote collection lists the fn elements in the document order of
\* the footnoteDefinition nodes they come from.
C3_FootnotesInDocumentOrder ==
  \A d \in Docs : IsDefault(d) => Increasing(FootnoteSources(d))

\* C4: under the default handlers the children of every element come from
\* AST nodes in document order: nothing is emitted out of the AST's order.
C4_ChildrenInAstOrder ==
  \A d \in Docs : IsDefault(d) =>
    LET held == Held(d) IN
      \A k \in 1..Len(held) : NonDecreasing(ChildSources(held[k]))

\* A finished element with children from three different AST nodes.
C4_Witness ==
  \E d \in Docs : IsDefault(d) /\ Finished(d) /\
    LET held == Held(d) IN
      \E k \in 1..Len(held) : Cardinality(Range(ChildSources(held[k]))) >= 3

IsRootFrame(e) == e.type = "element" /\ e.name = Undefined /\ e.src = 0 /\ ~e.leaf

OnlyRootFrame(d) ==
  /\ Len(articles[d].stack) = 1
  /\ IsRootFrame(articles[d].stack[1])
  /\ body(articles[d]).type = "element"

\* C6 as stated: once the constructor has returned the stack holds exactly
\* the root frame, whatever the handlers did, and body() can read it.
C6_SingleRootFrame == \A d \in Docs : Finished(d) => OnlyRootFrame(d)

\* C6, amended: the same, for the serializers whose handlers never popped
\* the root frame (closed or popped only frames above it); frames left open
\* are closed by the constructor.
C6_SingleRootFrameUnlessRootClosed ==
  \A d \in Docs : (Finished(d) /\ d \notin rootClosed) => OnlyRootFrame(d)

\* A constructor that returned after closing a frame which a handler had left
\* open with content in it.
C6_Witness ==
  \E d \in Docs : Finished(d) /\ d \notin rootClosed /\ ~IsDefault(d) /\
    \E k \in 1..Len(articles[d].stack[1].elements) :
      LET e == articles[d].stack[1].elements[k] IN
        e.name = "custom" /\ e.elements # <<>>

\* ------------------------------------------------ properties of the bundle
\* The position of the parent of position i (0: the root).
ParentOf(t, i) ==
  LET above == {j \in 1..(i - 1) : t[j].depth < t[i].depth}
  IN  IF above = {} THEN 0 ELSE CHOOSE j \in above : \A k \in above : k <= j

\* The node types whose default handler renders the node's children.
RenderingTypes ==
  {ty \in DOMAIN handlers :
     handlers[ty] \in {"renderInline", "renderChildren", "heading", "code",
                       "list", "link", "admonition", "admonitionTitle",
                       "tableCell", "container", "crossReference", "cite",
                       "footnoteDefinition"}}

\* The handler of every ancestor of position i renders its children.
RECURSIVE Reached(_, _)
Reached(t, i) ==
  LET p == ParentOf(t, i)
  IN  p = 0 \/ (t[p].type \in RenderingTypes /\ Reached(t, p))

MessagesFor(d, id) == SelectSeq(log, LAMBDA m : m.doc = d /\ m.node = id)
MessagesBut(d, id) ==
  LET ms == SelectSeq(log, LAMBDA m : m.doc = d /\ m.node # id)
  IN  [k \in 1..Len(ms) |-> [ms[k] EXCEPT !.doc = 0]]

\* The bundle is a document with one unhandled node and the same document
\* without it, both rendered with the default handlers.
IsPair ==
  /\ opts.multi /\ ~opts.custom /\ Len(contents) = 2
  /\ Cardinality(Unknowns(heap[1])) = 1
  /\ heap[2] = RemoveSubtree(heap[1], CHOOSE u \in Unknowns(heap[1]) : TRUE)

UnknownOfPair == CHOOSE u \in Unknowns(heap[1]) : TRUE

\* Nothing the serializer d holds comes from the given nodes.
NothingFrom(d, ids) ==
  LET held == Held(d) IN
    \A k \in 1..Len(held) :
      /\ held[k].src \notin ids
      /\ Range(held[k].text) \cap ids = {}

\* What C5 says of the finished pair but for the number of errors.
SameAsWithout ==
  LET u == heap[1][UnknownOfPair].id IN
    /\ result.type # "TypeError"
    /\ NothingFrom(1, SubtreeIds(heap[1], u))
    /\ articles[1].stack = articles[2].stack
    /\ articles[1].footnotes = articles[2].footnotes
    /\ articles[1].data = articles[2].data
    /\ MessagesBut(1, u) = MessagesBut(2, u)

\* C5 as stated: the document with one unhandled node is rendered to the
\* end, with exactly one error for that node, nothing emitted for it or its
\* subtree, and the output of the document without the node.
C5_OneErrorAndSameOutput ==
  (IsPair /\ pc = "done") =>
    /\ Len(MessagesFor(1, heap[1][UnknownOfPair].id)) = 1
    /\ SameAsWithout

\* C5, amended: exactly one error when the node is dispatched (every
\* ancestor's handler renders its children) and none when it is not; the
\* step that skips the node changes only the log.
C5_OneErrorIfReachedAndSameOutput ==
  /\ (IsPair /\ pc = "done") =>
       /\ Len(MessagesFor(1, heap[1][UnknownOfPair].id))
            = (IF Reached(heap[1], UnknownOfPair) THEN 1 ELSE 0)
       /\ \A k \in 1..Len(MessagesFor(1, heap[1][UnknownOfPair].id)) :
            MessagesFor(1, heap[1][UnknownOfPair].id)[k].via = "unhandled"
       /\ SameAsWithout
  /\ (IsPair /\ pc # "done") => ENABLED NextMulti

\* A finished pair whose unhandled node stood between two siblings that
\* were rendered, with an error logged for it.
C5_Witness ==
  /\ IsPair /\ pc = "done"
  /\ Len(MessagesFor(1, heap[1][UnknownOfPair].id)) = 1
  /\ UnknownOfPair > 1 /\ SubtreeEnd(heap[1], UnknownOfPair) < Len(heap[1])
  /\ articles[1].stack[1].elements # <<>>

IdsOf(d) == {TreeOf(d)[k].id : k \in 1..Len(TreeOf(d))}

\* The sub-article of the document d in the body of the bundle.
SubArticleOf(doc, d) ==
  IF opts.fullArticle
  THEN LET els == doc.elements[1].elements IN els[Len(els)].elements[d]
  ELSE doc.elements[d]

\* C7: whatever a serializer of a bundle holds (frames, footnotes) comes from
\* its own document, every footnote of a finished document is in its own
\* collection, and the back-matter of a sub-article holds footnotes of its
\* own document only.
C7_FootnoteIsolation ==
  opts.multi =>
    /\ \A d \in Docs :
         LET held == Held(d) IN
           \A k \in 1..Len(held) :
             /\ held[k].src \in IdsOf(d) \cup {0}
             /\ Range(held[k].text) \subseteq IdsOf(d)
    /\ \A d \in Docs : (Finished(d) /\ ~opts.custom) =>
         {x.node : x \in Range(DispatchedOfType(d, "footnoteDefinition"))}
           = Range(FootnoteSources(d))
    /\ pc = "done" =>
         \A d \in Docs :
           LET below == Descendants(SubArticleOf(result, d)) IN
             \A k \in 1..Len(below) : below[k].src \in IdsOf(d) \cup {0}

\* A finished bundle of two documents that both define a footnote.
C7_Witness ==
  /\ opts.multi /\ pc = "done" /\ Len(articles) = 2
  /\ IdsOf(1) \cap IdsOf(2) = {}
  /\ articles[1].footnotes # <<>> /\ articles[2].footnotes # <<>>

\* The AST objects and the contents list the caller passed.
CallerRefs == IF opts.multi THEN 1..Len(contents) ELSE {1}

\* C8: no step of the write functions changes an AST of the caller or the
\* mdast an entry of the caller's contents list holds.
C8_CallerInputUnchanged ==
  [][/\ \A r \in CallerRefs : heap'[r] = heap[r]
     /\ \A k \in 1..Len(contents) : contents'[k].mdast = contents[k].mdast]_vars

\* present (non-null) in the project frontmatter with a JSON-equal value
InProjectJsonEqual(page, project, k) ==
  /\ project.given /\ k \in DOMAIN project.fields
  /\ project.fields[k] \notin {"null", "undefined"}
  /\ JSONstringify(page.fields[k]) = JSONstringify(project.fields[k])

\* C9: the stub holds a key of the page frontmatter exactly when the project
\* frontmatter does not hold it (non-null) with a JSON-equal value; the keys
\* it holds carry the page's values.
C9_StubIsDifference ==
  \A d \in Docs : opts.multi =>
    LET stub == articles[d].options.frontmatter
        page == contents[d].frontmatter
        pageKeys == IF page.given THEN DOMAIN page.fields ELSE {}
    IN  /\ stub.given
        /\ DOMAIN stub.fields
             = {k \in pageKeys : ~InProjectJsonEqual(page, opts.frontmatter, k)}
        /\ \A k \in DOMAIN stub.fields : stub.fields[k] = page.fields[k]

\* A stub that omits the title the page shares with the project and keeps
\* another key whose values differ though the project has it too.
C9_Witness ==
  /\ Len(articles) = 1 /\ opts.multi
  /\ contents[1].frontmatter.given /\ opts.frontmatter.given
  /\ DOMAIN contents[1].frontmatter.fields = {"title", "subject"}
  /\ DOMAIN opts.frontmatter.fields = {"title", "subject"}
  /\ contents[1].frontmatter.fields["title"] = "A"
  /\ opts.frontmatter.fields["title"] = "A"
  /\ DOMAIN articles[1].options.frontmatter.fields = {"subject"}

Names(els) == [k \in 1..Len(els) |-> els[k].name]

\* C10: the article of a bundle is the project's front (when there is one)
\* and one body, never a back; the body is one sub-article per document, in
\* the order of the contents, each an optional front-stub, the document's
\* body and the document's own back-matter (when there is one).
C10_BundleArticleShape ==
  (opts.multi /\ opts.fullArticle /\ pc = "done") =>
    LET art == result.elements[1]
        front == getFront(opts.frontmatter)
        bdy == art.elements[Len(art.elements)]
    IN  /\ Len(result.elements) = 1 /\ art.name = "article"
        /\ Names(art.elements)
             = (IF Present(front) THEN <<"front">> ELSE <<>>) \o <<"body">>
        /\ Len(bdy.elements) = Len(contents)
        /\ \A d \in 1..Len(contents) :
             LET sub == bdy.elements[d]
                 stub == getArticleMeta(articles[d].options.frontmatter)
                 back == getBack(contents[d].citations, articles[d].footnotes)
             IN  /\ sub.name = "sub-article"
                 /\ articles[d].tree = contents[d].mdast
                 /\ Names(sub.elements)
                      = (IF stub # <<>> THEN <<"front-stub">> ELSE <<>>)
                        \o <<"body">>
                        \o (IF Present(back) THEN <<"back">> ELSE <<>>)
                 /\ body(articles[d]) \in Range(sub.elements)
                 /\ Present(back) => back \in Range(sub.elements)

\* A finished bundle article with a front whose second sub-article has a
\* front-stub, a body and a back.
C10_Witness ==
  /\ opts.multi /\ opts.fullArticle /\ pc = "done" /\ Len(contents) = 2
  /\ Len(result.elements[1].elements) = 2
  /\ Len(result.elements[1].elements[2].elements[2].elements) = 3
  /\ articles[2].footnotes # <<>>

\* ------------------------------------------------ properties of the handlers
\* Every node of the tree of d that renderChildren comes to was either
\* handed to its handler or logged as unhandled.
AllProcessed(d) ==
  LET t == TreeOf(d) IN
    \A i \in 1..Len(t) : Reached(t, i) =>
      \/ \E k \in 1..Len(dispatched) :
           dispatched[k].doc = d /\ dispatched[k].node = t[i].id
      \/ \E k \in 1..Len(log) :
           log[k].doc = d /\ log[k].node = t[i].id /\ log[k].via = "unhandled"

\* What C11 says of every state: no call raises or blocks, a finished
\* constructor leaves the root frame for body() to wrap, and all nodes were
\* processed whatever was logged on the way.
TransductionIsSafe ==
  /\ pc \in {"render", "built", "done", "compose", "write"}
  /\ pc # "done" => ENABLED Next
  /\ \A d \in Docs : (IsDefault(d) /\ Finished(d)) =>
       /\ Len(articles[d].stack) = 1
       /\ body(articles[d]).type = "element" /\ body(articles[d]).name = "body"
       /\ body(articles[d]).elements = articles[d].stack[1].elements
       /\ AllProcessed(d)
  /\ (pc = "done" /\ IsDefault(1)) => result = body(articles[1])

\* C11: with the default handlers the construction of a JatsSerializer
\* always comes to its end without raising, whatever the tree holds, and
\* body() then wraps the children of the root frame; diagnostics do not stop
\* the processing of the nodes that follow.
C11_TransductionIsTotal == []TransductionIsSafe /\ <>(pc = "done")

\* A finished transduction that logged an unhandled node and an unknown
\* container kind and went on to render a node after each.
C11_Witness ==
  /\ pc = "done" /\ IsDefault(1) /\ log # <<>>
  /\ \E k \in 1..Len(dispatched) : dispatched[k].node > log[1].node
  /\ result.elements # <<>>

\* C12: the diagnostics logged through warn (remote image URL, break in a
\* paragraph) are recorded as warnings, and those logged through error or
\* for an unhandled node type as errors.
C12_SeveritiesDiffer ==
  \A k \in 1..Len(log) :
    /\ log[k].via = "warn" => log[k].severity = "warning"
    /\ log[k].via \in {"error", "unhandled"} => log[k].severity = "error"

\* The handler called for a node of the given type has just returned, under
\* the default table.
Returned(type) ==
  /\ Running("return") /\ IsDefault(cur)
  /\ tree[Head(todo).node].type = type

\* The elements the handler that has just returned added to the frame that
\* was on top when it was entered.
Emitted ==
  LET entry == Head(todo).entry.stack
      now == this.stack[Len(entry)].elements
  IN  SubSeq(now, Len(entry[Len(entry)].elements) + 1, Len(now))

\* The handler that has just returned left every frame it was entered with
\* as it was, but for elements added at the end of the top frame.
OnlyEmitted ==
  LET entry == Head(todo).entry.stack IN
    /\ Len(this.stack) = Len(entry)
    /\ this.stack = [entry EXCEPT ![Len(entry)].elements = @ \o Emitted]

RECURSIVE Ancestors(_, _)
Ancestors(t, i) ==
  LET p == ParentOf(t, i) IN IF p = 0 THEN {} ELSE {p} \cup Ancestors(t, p)

InFigureOrTable(t, i) ==
  \E a \in Ancestors(t, i) :
    t[a].type = "container" /\ t[a].kind \in {"figure", "table"}

\* <alt-text>text</alt-text> and the graphic leaf of an image node
AltText(n) ==
  [Element("alt-text", NoAttrs, FALSE, n.id) EXCEPT
     !.elements = <<createText(AltOf(n))>>]
Graphic(n) == Element("graphic", ("xlink:href" :> UrlOf(n)), TRUE, n.id)

\* C13: an image emits alt-text, before its graphic leaf, exactly when it has
\* alt text and a container ancestor of kind figure or table; it always
\* emits one graphic leaf carrying the URL.
C13_AltTextInsideFigureOrTable ==
  Returned("image") =>
    LET i == Head(todo).node IN
      /\ OnlyEmitted
      /\ Emitted = (IF AltOf(tree[i]) # <<>> /\ InFigureOrTable(tree, i)
                    THEN <<AltText(tree[i])>> ELSE <<>>)
                   \o <<Graphic(tree[i])>>

\* C14: a break whose parent is a paragraph emits nothing, logs one warning
\* and leaves the stack as it was; any other break emits one break leaf and
\* logs nothing.
C14_BreakWarnsInParagraph ==
  Returned("break") =>
    LET i == Head(todo).node
        ms == MessagesFor(cur, tree[i].id)
    IN  /\ OnlyEmitted
        /\ IF TypeOf(tree, ParentOf(tree, i)) = "paragraph"
           THEN /\ Emitted = <<>>
                /\ Len(ms) = 1 /\ ms[1].severity = "warning"
           ELSE /\ Emitted = <<Element("break", NoAttrs, TRUE, tree[i].id)>>
                /\ ms = <<>>

\* The value of attribute k of element e, Undefined when it has none.
Attr(e, k) == IF k \in DOMAIN e.attributes THEN e.attributes[k] ELSE Undefined

\* The handler that has just returned emitted one element and nothing else.
EmittedOne == OnlyEmitted /\ Len(Emitted) = 1

\* C15: a tableCell emits th when its header flag is set and td otherwise;
\* align, colspan and rowspan are defined on the element exactly when the
\* field is present on the node, colspan and rowspan as the decimal string
\* of the number.
C15_CellAttributesWhenPresent ==
  Returned("tableCell") =>
    LET n == tree[Head(todo).node]
        e == Emitted[1]
    IN  /\ EmittedOne
        /\ e.name = (IF n.header THEN "th" ELSE "td")
        /\ Attr(e, "align") = n.align
        /\ \A k \in {"colspan", "rowspan"} :
             Attr(e, k) = (IF n[k] = <<>> THEN Undefined ELSE ToString(n[k][1]))

\* C16: a crossReference emits one xref element whose rid is the node's
\* identifier and whose ref-type is sec, fig, disp-formula or table for the
\* kinds heading, figure, equation and table and custom for any other; it
\* carries custom-type, the kind, exactly when the ref-type is custom and a
\* kind is given, and never a defined id.
C16_CrossReferenceIsXref ==
  Returned("crossReference") =>
    LET n == tree[Head(todo).node]
        e == Emitted[1]
        refType == CASE n.kind = "heading" -> "sec"
                     [] n.kind = "figure" -> "fig"
                     [] n.kind = "equation" -> "disp-formula"
                     [] n.kind = "table" -> "table"
                     [] OTHER -> "custom"
    IN  /\ EmittedOne
        /\ e.type = "element" /\ e.name = "xref"
        /\ Attr(e, "rid") = IdentifierOf(n)
        /\ Attr(e, "ref-type") = refType
        /\ Attr(e, "custom-type") =
             (IF refType = "custom" /\ n.kind # Undefined THEN n.kind
              ELSE Undefined)
        /\ Attr(e, "id") = Undefined

\* A cross-reference of a kind of its own, to a node with an identifier,
\* was rendered.
C16_Witness ==
  /\ Returned("crossReference") /\ EmittedOne
  /\ tree[Head(todo).node].kind = "proof" /\ tree[Head(todo).node].identified
  /\ Attr(Emitted[1], "custom-type") = "proof"
  /\ Attr(Emitted[1], "rid") # Undefined

\* <label>enumerator</label>, with the parentheses of an equation or without
LabelElement(n, parens) ==
  [Element("label", NoAttrs, FALSE, n.id) EXCEPT
     !.elements = <<createText(IF parens
                               THEN <<OpenParen>> \o EnumeratorOf(n) \o <<CloseParen>>
                               ELSE EnumeratorOf(n))>>]

\* What a heading emitted: a title that wraps what its children rendered,
\* after a label when withLabel.
HeadingEmits(n, withLabel) ==
  /\ OnlyEmitted
  /\ Len(Emitted) = (IF withLabel THEN 2 ELSE 1)
  /\ withLabel => Emitted[1] = LabelElement(n, FALSE)
  /\ LET title == Emitted[Len(Emitted)] IN
       /\ title.type = "element" /\ title.name = "title" /\ title.src = n.id
       /\ \A k \in 1..Len(title.elements) : title.elements[k].name # "label"

\* C17: a heading emits a label holding the enumerator, as the sibling just
\* before the title, exactly when its enumerated flag is true and it has an
\* enumerator; in every other case it emits the title alone.
C17_LabelWhenEnumeratedTrue ==
  Returned("heading") =>
    LET n == tree[Head(todo).node] IN
      HeadingEmits(n, n.enumerated = "true" /\ EnumeratorOf(n) # <<>>)

\* C17 as the code has it: the label is emitted exactly when the enumerated
\* flag is not false (true or not set) and the heading has an enumerator.
C17_LabelUnlessEnumeratedFalse ==
  Returned("heading") =>
    LET n == tree[Head(todo).node] IN
      HeadingEmits(n, n.enumerated # "false" /\ EnumeratorOf(n) # <<>>)

\* A heading with an enumerator and no enumerated flag emitted label, title.
C17_Witness ==
  /\ Returned("heading") /\ OnlyEmitted
  /\ tree[Head(todo).node].enumerated = Undefined
  /\ Len(Emitted) = 2 /\ Emitted[1].name = "label" /\ Emitted[2].name = "title"

\* <tex-math><![CDATA[value]]></tex-math> of a math node
CData(n) == Element("cdata", [cdata |-> ValueOf(n)], TRUE, n.id)
TexMath(n) ==
  [Element("tex-math", NoAttrs, FALSE, n.id) EXCEPT !.elements = <<CData(n)>>]

\* Every cdata node below e is a child of a tex-math element.
RECURSIVE CDataOnlyInTexMath(_)
CDataOnlyInTexMath(e) ==
  \A k \in 1..Len(e.elements) :
    /\ e.elements[k].type = "cdata" => (e.type = "element" /\ e.name = "tex-math")
    /\ CDataOnlyInTexMath(e.elements[k])

\* C18: block math emits disp-formula, with the identifier as id, holding a
\* label "(" enumerator ")" when there is a label to render and then
\* tex-math with one cdata leaf of the source; inline math emits
\* inline-formula > tex-math > cdata without a label; every cdata node of
\* the output is a child of a tex-math element (an open cdata frame lies
\* on a tex-math frame).
C18_MathIsTexMathCData ==
  /\ Returned("math") =>
       LET n == tree[Head(todo).node] IN
         /\ EmittedOne
         /\ Emitted[1] =
              [Element("disp-formula", [id |-> IdentifierOf(n)], FALSE, n.id)
                 EXCEPT !.elements =
                   (IF n.enumerated # "false" /\ EnumeratorOf(n) # <<>>
                    THEN <<LabelElement(n, TRUE)>> ELSE <<>>) \o <<TexMath(n)>>]
  /\ Returned("inlineMath") =>
       LET n == tree[Head(todo).node] IN
         /\ EmittedOne
         /\ Emitted[1] = [Element("inline-formula", NoAttrs, FALSE, n.id)
                            EXCEPT !.elements = <<TexMath(n)>>]
  /\ \A d \in Docs : IsDefault(d) =>
       /\ \A k \in 1..Len(articles[d].stack) :
            /\ articles[d].stack[k].type = "cdata" =>
                 (k > 1 /\ articles[d].stack[k - 1].name = "tex-math")
            /\ CDataOnlyInTexMath(articles[d].stack[k])
       /\ \A k \in 1..Len(articles[d].footnotes) :
            CDataOnlyInTexMath(articles[d].footnotes[k])

\* An enumerated equation was rendered with its label before its tex-math.
C18_Witness ==
  /\ Returned("math") /\ EmittedOne
  /\ Len(Emitted[1].elements) = 2
  /\ Emitted[1].elements[1].name = "label"
  /\ Emitted[1].elements[1].elements[1].text[1] = OpenParen
  /\ Emitted[1].elements[2].elements[1].type = "cdata"

\* The ids of the nodes below the node at position i of the running tree.
Below(i) == SubtreeIds(tree, tree[i].id) \ {tree[i].id}

\* Nothing below node i was handed to a handler or logged.
ChildrenNotRendered(i) ==
  /\ \A k \in 1..Len(dispatched) :
       dispatched[k].doc = cur => dispatched[k].node \notin Below(i)
  /\ \A k \in 1..Len(log) : log[k].doc = cur => log[k].node \notin Below(i)

\* Element e wraps what the children of node i rendered: every child was
\* handed to its handler, and the text of a text child is in e.
WrapsChildren(e, i) ==
  /\ ~e.leaf
  /\ \A c \in Range(Children(tree, i)) :
       /\ tree[c].type \in DOMAIN handlers =>
            \E k \in 1..Len(dispatched) :
              dispatched[k].doc = cur /\ dispatched[k].node = tree[c].id
       /\ (tree[c].type = "text" /\ tree[c].valued) =>
            \E k \in 1..Len(e.elements) :
              e.elements[k].type = "text" /\ tree[c].id \in Range(e.elements[k].text)
  /\ \A k \in 1..Len(ChildSources(e)) : ChildSources(e)[k] \in Below(i)

\* C19: a footnoteReference emits one xref leaf with ref-type fn and rid the
\* identifier and never renders its children; a cite emits one xref with
\* ref-type bibr and rid the citation label that wraps its rendered
\* children; neither has a defined id.
C19_ReferencesAreXrefs ==
  /\ Returned("footnoteReference") =>
       LET i == Head(todo).node IN
         /\ EmittedOne
         /\ Emitted[1] = Element("xref", ("ref-type" :> "fn")
                                   @@ [rid |-> IdentifierOf(tree[i])],
                                 TRUE, tree[i].id)
         /\ Attr(Emitted[1], "id") = Undefined
         /\ ChildrenNotRendered(i)
  /\ Returned("cite") =>
       LET i == Head(todo).node
           e == Emitted[1]
       IN  /\ EmittedOne
           /\ e.type = "element" /\ e.name = "xref" /\ e.src = tree[i].id
           /\ Attr(e, "ref-type") = "bibr"
           /\ Attr(e, "rid") = CiteLabelOf(tree[i])
           /\ Attr(e, "id") = Undefined
           /\ WrapsChildren(e, i)

\* A footnote reference with an identifier and a child was rendered as a
\* leaf.
C19_Witness ==
  /\ Returned("footnoteReference") /\ EmittedOne
  /\ tree[Head(todo).node].identified
  /\ Below(Head(todo).node) # {}
  /\ Emitted[1].leaf /\ Attr(Emitted[1], "rid") # Undefined

\* The handler called for a node has just returned, under the default table.
ReturnedAny == Running("return") /\ IsDefault(cur)

\* Sequence a is sequence b with elements added at its end.
Extends(a, b) == Len(a) >= Len(b) /\ SubSeq(a, 1, Len(b)) = b

\* The frames the handler was entered with are the frames of the stack now,
\* but for the children of the top one.
SameFramesButTop ==
  LET entry == Head(todo).entry.stack
      L == Len(entry)
  IN  /\ Len(this.stack) = L
      /\ \A k \in 1..(L - 1) : this.stack[k] = entry[k]
      /\ [this.stack[L] EXCEPT !.elements = <<>>] = [entry[L] EXCEPT !.elements = <<>>]

\* The children of the entry top now: those it had, its last child grown if
\* that is a text node, and new children after them.
ExtendsOrMerges(now, old) ==
  \/ Extends(now, old)
  \/ LET m == Len(old) IN
       /\ m > 0 /\ Len(now) >= m
       /\ old[m].type = "text" /\ now[m].type = "text"
       /\ SubSeq(now, 1, m - 1) = SubSeq(old, 1, m - 1)
       /\ Extends(now[m].text, old[m].text)
       /\ now[m] = [old[m] EXCEPT !.text = now[m].text]

\* A footnoteDefinition leaves the stack as it was and adds to the footnotes.
FootnoteDefinitionBalanced ==
  tree[Head(todo).node].type = "footnoteDefinition" =>
    /\ this.stack = Head(todo).entry.stack
    /\ Len(this.footnotes) > Len(Head(todo).entry.footnotes)

\* C20: when a handler of the default table returns, the stack is as deep as
\* when it was entered, the frames below the entry top are the same, and the
\* entry top differs only by children added at the end of its list; a
\* footnoteDefinition adds to the footnotes instead.
C20_HandlersOnlyAppend ==
  ReturnedAny =>
    LET entry == Head(todo).entry IN
      /\ SameFramesButTop
      /\ Extends(this.stack[Len(entry.stack)].elements,
                 entry.stack[Len(entry.stack)].elements)
      /\ Extends(this.footnotes, entry.footnotes)
      /\ FootnoteDefinitionBalanced

\* C20 as the code has it: the entry top differs by children added at the
\* end of its list, or by text added to its last child when that is a text
\* node, with children added after it.
C20_HandlersAppendOrMergeText ==
  ReturnedAny =>
    LET entry == Head(todo).entry IN
      /\ SameFramesButTop
      /\ ExtendsOrMerges(this.stack[Len(entry.stack)].elements,
                         entry.stack[Len(entry.stack)].elements)
      /\ Extends(this.footnotes, entry.footnotes)
      /\ FootnoteDefinitionBalanced

\* A handler that renders the children of its node returned after their
\* text was merged into the last child of its entry top.
C20_Witness ==
  /\ ReturnedAny /\ SameFramesButTop
  /\ tree[Head(todo).node].type # "text"
  /\ LET entry == Head(todo).entry.stack
         old == entry[Len(entry)].elements
         now == this.stack[Len(entry)].elements
     IN  /\ old # <<>> /\ Len(now) >= Len(old)
         /\ now[Len(old)].type = "text"
         /\ Len(now[Len(old)].text) > Len(old[Len(old)].text)

\* ------------------------------------------ properties of the builder state
\* The builder of the running document is about to take a frame off its
\* stack: closeNode, or the pop of handlers.footnoteDefinition.
AboutToPop == Running("closeNode") \/ Running("popFootnote")

\* C21: under the default table the stack always holds at least one frame
\* and its first frame is the root frame of the constructor; closeNode and
\* the pop of footnoteDefinition never run with the root frame alone.
C21_RootFrameNeverPopped ==
  \A d \in Docs : IsDefault(d) =>
    /\ Len(articles[d].stack) >= 1
    /\ IsRootFrame(articles[d].stack[1])
    /\ d \notin rootClosed
    /\ (d = cur /\ AboutToPop) => Len(articles[d].stack) > 1

\* A footnote definition among the children of the root is about to pop its
\* fn element, the only frame above the root frame.
C21_Witness ==
  /\ IsDefault(cur) /\ Running("popFootnote")
  /\ Len(this.stack) = 2 /\ this.stack[2].name = "fn"
  /\ IsRootFrame(this.stack[1])

\* The node whose handler is running: that of the first return still to be
\* made (0: none, renderChildren of the root is running).
RECURSIVE FirstReturn(_)
FirstReturn(calls) ==
  IF calls = <<>> THEN 0
  ELSE IF Head(calls).op = "return" THEN Head(calls).node
  ELSE FirstReturn(Tail(calls))

\* Position i of the running tree is a container or lies inside one.
InContainer(i) ==
  i # 0 /\ \E a \in {i} \cup Ancestors(tree, i) : tree[a].type = "container"

\* What C22 says of every state under the default table.
FlagOnlyInsideContainers ==
  (pc = "render" /\ IsDefault(cur)) =>
    /\ Returned("container") => ~this.data.isInContainer
    /\ (Running("visit") /\ ~InContainer(Head(todo).node)) =>
         ~this.data.isInContainer
    /\ ~InContainer(FirstReturn(todo)) => ~this.data.isInContainer
    /\ (Returned("image") /\ ~InContainer(Head(todo).node)) =>
         /\ OnlyEmitted
         /\ Emitted = <<Graphic(tree[Head(todo).node])>>

\* What C22 says of every step: the handler of a container begins by setting
\* the flag.
FlagSetOnEntry ==
  /\ (Running("visit") /\ IsDefault(cur)
        /\ tree[Head(todo).node].type = "container") =>
       (todo' # <<>> /\ Head(todo').op = "setInContainer")
  /\ Running("setInContainer") => articles'[cur].data.isInContainer

\* C22: data.isInContainer is set on entry to the container handler and
\* absent when it has returned, whatever the kind; so the flag is absent
\* while a node outside every container is handled, and an image outside
\* every container emits no alt-text.
C22_FlagClearedAfterContainer ==
  []FlagOnlyInsideContainers /\ [][FlagSetOnEntry]_vars

\* An image with alt text that follows a container of unrecognized kind
\* among the children of the root was rendered as a graphic alone.
C22_Witness ==
  /\ Returned("image") /\ ~InContainer(Head(todo).node)
  /\ AltOf(tree[Head(todo).node]) # <<>>
  /\ \E k \in 1..Len(dispatched) :
       LET n == NodeById(tree, dispatched[k].node) IN
         n.type = "container" /\ n.kind = "other"
  /\ Emitted = <<Graphic(tree[Head(todo).node])>>

\* The children of node i were rendered straight into the frame that was on
\* top when its handler was entered: each was handed to its handler, the
\* text of a text child is among the children of that frame, in the order of
\* the tree, and no element of node i itself was added.
RenderedIntoEntryTop(i) ==
  LET top0 == this.stack[Len(Head(todo).entry.stack)] IN
    /\ SameFramesButTop
    /\ ExtendsOrMerges(top0.elements,
                       Head(todo).entry.stack[Len(Head(todo).entry.stack)].elements)
    /\ \A k \in 1..Len(top0.elements) : top0.elements[k].src # tree[i].id
    /\ NonDecreasing(ChildSources(top0))
    /\ \A c \in Range(Children(tree, i)) :
         /\ tree[c].type \in DOMAIN handlers =>
              \E k \in 1..Len(dispatched) :
                dispatched[k].doc = cur /\ dispatched[k].node = tree[c].id
         /\ (tree[c].type = "text" /\ tree[c].valued) =>
              \E k \in 1..Len(top0.elements) :
                /\ top0.elements[k].type = "text"
                /\ tree[c].id \in Range(top0.elements[k].text)

\* The wrapper of a container of a recognized kind other than quote.
ContainerTag ==
  [figure |-> "fig", table |-> "table-wrap", code |-> "boxed-text"]

\* C23: a container of unrecognized kind logs exactly one error, emits no
\* wrapper and renders its children in order into the frame on top at its
\* entry; figure, table and code wrap the children in fig, table-wrap and
\* boxed-text; quote renders the children without wrapper and without error.
C23_ContainerKinds ==
  Returned("container") =>
    LET i == Head(todo).node
        n == tree[i]
        ms == MessagesFor(cur, n.id)
    IN  IF n.kind \in DOMAIN ContainerTag
        THEN /\ EmittedOne
             /\ Emitted[1].type = "element" /\ Emitted[1].name = ContainerTag[n.kind]
             /\ Emitted[1].src = n.id
             /\ WrapsChildren(Emitted[1], i)
             /\ ms = <<>>
        ELSE /\ RenderedIntoEntryTop(i)
             /\ IF n.kind = "quote" THEN ms = <<>>
                ELSE Len(ms) = 1 /\ ms[1].via = "error" /\ ms[1].severity = "error"

\* A container of unrecognized kind whose text child was rendered into the
\* frame on top at its entry, after the one error.
C23_Witness ==
  /\ Returned("container") /\ tree[Head(todo).node].kind = "other"
  /\ Len(MessagesFor(cur, tree[Head(todo).node].id)) = 1
  /\ Emitted # <<>>
  /\ \E c \in Range(Children(tree, Head(todo).node)) :
       tree[c].type = "text" /\ tree[c].valued

\* ------------------------------------------------ the builder called directly
\* The builder calls a caller-supplied handler can make for its node.
AddLeaf(i, name, attributes) ==
  [Call("addLeaf") EXCEPT !.node = i, !.name = name, !.attributes = attributes]

BuilderCalls ==
  { Open(1, "custom", NoAttrs), OpenLeaf(1, "leaf", NoAttrs), Close,
    Text(<<1>>), AddLeaf(1, "graphic", NoAttrs) }

\* new JatsSerializer(file, tree, {handlers}) at the point where the handler
\* of the one node of the tree starts a sequence of at most MaxCalls calls.
InitBuilder ==
  \E n \in 1..MaxCalls : \E calls \in [1..n -> BuilderCalls] :
    /\ heap = <<Tree(<<1>>, <<Node("opener")>>)>>
    /\ contents = <<>>
    /\ opts = Options(FALSE, TRUE, FALSE, NoFrontmatter)
    /\ articles = <<Serializer(1, TableOf(opts), [citations |-> FALSE,
                                                  frontmatter |-> NoFrontmatter])>>
    /\ cur = 1
    /\ todo = calls
    /\ pc = "render"
    /\ Start

\* addLeaf(name, attributes): openNode(name, attributes, true), closeNode(),
\* and its return.
AddLeafCall ==
  /\ Running("addLeaf")
  /\ LET c == Head(todo) IN
       todo' = addLeaf(c.node, c.name, c.attributes) \o <<Return(c.node, this)>>
                 \o Tail(todo)
  /\ UNCHANGED <<heap, contents, opts, articles, cur, log, dispatched, pc,
                 rootClosed, result>>

NextBuilder ==
  \/ OpenNode \/ CloseNode \/ TextCall \/ AddLeafCall \/ HandlerReturns
  \/ CloseRemaining \/ Constructed

SpecBuilder == InitBuilder /\ [][NextBuilder]_vars

\* Every element of the stack and below it that was opened as a leaf has no
\* children.
LeavesAreChildless ==
  \A d \in Docs : \A k \in 1..Len(Held(d)) :
    Held(d)[k].leaf => Held(d)[k].elements = <<>>

\* addLeaf has just returned: the stack is as deep as before, and its top,
\* when it has a children array, got one childless node at the end.
AddLeafAppendsOne ==
  Running("return") =>
    LET entry == Head(todo).entry.stack IN
      IF entry # <<>> /\ HasElements(entry[Len(entry)])
      THEN /\ OnlyEmitted
           /\ Len(Emitted) = 1
           /\ Emitted[1].leaf /\ Emitted[1].elements = <<>>
      ELSE this.stack = entry

\* A step leaves every leaf frame of the stack as it was; with a leaf on
\* top text() changes nothing, and closeNode() of a frame on a leaf only
\* takes that frame off.
LeafFrameUntouched ==
  LET old == this.stack
      new == articles'[cur].stack
  IN  /\ \A k \in 1..Len(new) : (k <= Len(old) /\ old[k].leaf) => new[k] = old[k]
      /\ (Running("text") /\ old # <<>> /\ top(this).leaf) => new = old
      /\ (Running("closeNode") /\ Len(old) >= 2 /\ old[Len(old) - 1].leaf) =>
           new = SubSeq(old, 1, Len(old) - 1)

TableAlphabet ==
  { [Node("text") EXCEPT !.valued = TRUE],
    Parent("paragraph"),
    Node("comment"),
    Node("break"),
    Parent("unknown") }

\* The documents of the bundles.
TableTrees ==
  { Tree(<<1>>, <<Node("comment")>>),
    Tree(<<1, 2>>, <<Parent("paragraph"), Node("comment")>>),
    Tree(<<1, 2>>, <<Parent("paragraph"), Node("break")>>),
    Tree(<<1, 1>>, <<[Node("text") EXCEPT !.valued = TRUE], Node("break")>>),
    Tree(<<1, 2>>, <<Parent("unknown"), Node("comment")>>) }

\* new MultiArticleJatsDocument(file, contents, opts) for up to MaxDocs
\* documents, with and without opts.handlers and other options.
InitTableBundle ==
  \E m \in 1..MaxDocs : \E custom, full \in BOOLEAN :
  \E ts \in [1..m -> TableTrees] :
    /\ heap = [k \in 1..m |-> Relabel(ts[k], 10 * k)]
    /\ contents = [k \in 1..m |-> Content(k, NoFrontmatter, FALSE)]
    /\ opts = Options(TRUE, custom, full, NoFrontmatter)
    /\ articles = <<>>
    /\ cur = 0
    /\ todo = <<>>
    /\ pc = "compose"
    /\ Start

\* One document or a bundle, under the default or a caller-supplied table.
InitTables ==
  \/ InitWith(TableAlphabet, FALSE)
  \/ InitWith(TableAlphabet, TRUE)
  \/ InitTableBundle

\* The steps these documents can take: none of their nodes has a handler
\* that logs an error, sets the container flag, pops a footnote or leaves a
\* frame open.
NextTables ==
  \/ StartArticle \/ Dispatch \/ HandlerReturns \/ Unhandled
  \/ OpenNode \/ CloseNode \/ TextCall \/ WarnCall \/ Constructed \/ Build

SpecTables == InitTables /\ [][NextTables]_vars

\* The table the caller asked for: opts.handlers when given, else the
\* default table.
Supplied == IF opts.custom THEN CustomHandlers ELSE handlers

\* renderChildren comes to position i of the tree of d when the handlers of
\* the supplied table render the children of every node above it.
RECURSIVE ReachedUnder(_, _)
ReachedUnder(t, i) ==
  LET p == ParentOf(t, i) IN
    \/ p = 0
    \/ /\ t[p].type \in DOMAIN Supplied
       /\ Supplied[t[p].type] \in {"renderInline", "renderChildren"}
       /\ ReachedUnder(t, p)

DispatchesOf(d, id) ==
  SelectSeq(dispatched, LAMBDA x : x.doc = d /\ x.node = id)

\* C25: opts.handlers replaces the default table as a whole: a node whose
\* type is not in the supplied table is unhandled (one error, skipped) even
\* when the default table has a handler for it; without opts.handlers the
\* default table is used; all builders of a bundle use the same table.
C25_SuppliedTableReplacesDefault ==
  \A d \in Docs :
    /\ articles[d].handlers = Supplied
    /\ \A e \in Docs : articles[e].handlers = articles[d].handlers
    /\ Finished(d) =>
         \A i \in 1..Len(TreeOf(d)) : ReachedUnder(TreeOf(d), i) =>
           LET n == TreeOf(d)[i] IN
             IF n.type \in DOMAIN Supplied
             THEN /\ Len(DispatchesOf(d, n.id)) = 1
                  /\ MessagesFor(d, n.id) =
                       SelectSeq(MessagesFor(d, n.id), LAMBDA m : m.via # "unhandled")
             ELSE /\ DispatchesOf(d, n.id) = <<>>
                  /\ Len(MessagesFor(d, n.id)) = 1
                  /\ MessagesFor(d, n.id)[1].via = "unhandled"
                  /\ NothingFrom(d, SubtreeIds(TreeOf(d), n.id))

\* The second document of a bundle under a caller-supplied table was
\* rendered: its break, for which only the default table has a handler, was
\* logged as unhandled and skipped, and its text was rendered.
C25_Witness ==
  /\ opts.custom /\ Len(articles) >= 2 /\ Finished(2)
  /\ \E i \in 1..Len(TreeOf(2)) :
       /\ TreeOf(2)[i].type = "break"
       /\ Len(MessagesFor(2, TreeOf(2)[i].id)) = 1
       /\ MessagesFor(2, TreeOf(2)[i].id)[1].via = "unhandled"
  /\ articles[2].stack[1].elements # <<>>
====
